---------------------------- MODULE Spec2Model ----------------------------
(***************************************************************************)
(* Model of db.py: the DatabaseTracker record store, the schema            *)
(* reconciler (ensure_table_columns / migrate_table_schema) and the        *)
(* file-copy import/export handlers, over a model of the SQLite file.      *)
(***************************************************************************)
EXTENDS Integers, Sequences, FiniteSets, TLC

(***************************************************************************)
(* Bounds of the exploration.                                              *)
(***************************************************************************)
MaxCalls == 1         \* add_record and direct migrate_table_schema calls per behaviour
MaxIoCalls == 2       \* add_record, save_file_result and switch_tab calls per behaviour of SpecIO
MaxLegacyRows == 2    \* rows held by a table of a pre-existing file
MaxRecordId == 2      \* record ids passed to delete_record

(***************************************************************************)
(* Python string functions, on TLA+ strings.                               *)
(***************************************************************************)
UpperChars == "ABCDEFGHIJKLMNOPQRSTUVWXYZ"
LowerChars == "abcdefghijklmnopqrstuvwxyz"
DigitChars == "0123456789"

IsIn(ch, chars) == \E i \in 1..Len(chars) : SubSeq(chars, i, i) = ch

\* str.lower() of one character
LowerChar(ch) ==
    IF IsIn(ch, UpperChars)
    THEN LET i == CHOOSE j \in 1..Len(UpperChars) : SubSeq(UpperChars, j, j) = ch
         IN  SubSeq(LowerChars, i, i)
    ELSE ch

RECURSIVE lower(_)
lower(s) == IF s = "" THEN "" ELSE LowerChar(Head(s)) \o lower(Tail(s))

isalnum(ch) == IsIn(ch, UpperChars) \/ IsIn(ch, LowerChars) \/ IsIn(ch, DigitChars)

\* normalize(col): ''.join(ch.lower() for ch in str(col) if ch.isalnum())
RECURSIVE normalize(_)
normalize(col) ==
    IF col = "" THEN ""
    ELSE (IF isalnum(Head(col)) THEN LowerChar(Head(col)) ELSE "") \o normalize(Tail(col))

endswith(s, suffix) ==
    /\ Len(s) >= Len(suffix)
    /\ SubSeq(s, Len(s) - Len(suffix) + 1, Len(s)) = suffix

\* Python's `a in b` on strings
Contains(a, b) ==
    \E i \in 1..(Len(b) - Len(a) + 1) : SubSeq(b, i, i + Len(a) - 1) = a

(***************************************************************************)
(* SQLite values: NULL, integers and text, and column type affinity.       *)
(***************************************************************************)
NULL == [k |-> "null", i |-> 0, s |-> ""]
IntV(n) == [k |-> "int", i |-> n, s |-> ""]
TextV(str) == [k |-> "text", i |-> 0, s |-> str]

RECURSIVE IntToText(_)
IntToText(n) ==
    IF n < 10 THEN SubSeq(DigitChars, n + 1, n + 1)
    ELSE IntToText(n \div 10) \o SubSeq(DigitChars, (n % 10) + 1, (n % 10) + 1)

IsDigits(str) == str # "" /\ \A i \in 1..Len(str) : IsIn(SubSeq(str, i, i), DigitChars)

DigitVal(ch) == (CHOOSE j \in 1..Len(DigitChars) : SubSeq(DigitChars, j, j) = ch) - 1

RECURSIVE TextToInt(_)
TextToInt(str) ==
    IF Len(str) = 1 THEN DigitVal(str)
    ELSE 10 * TextToInt(SubSeq(str, 1, Len(str) - 1)) + DigitVal(SubSeq(str, Len(str), Len(str)))

\* the value a column of declared type `type` stores when given v
ApplyAffinity(type, v) ==
    CASE type = "TEXT" /\ v.k = "int" -> TextV(IntToText(v.i))
      [] type = "INTEGER" /\ v.k = "text" /\ IsDigits(v.s) -> IntV(TextToInt(v.s))
      [] OTHER -> v


(***************************************************************************)
(* Schema registry and the tables init_database creates.                   *)
(***************************************************************************)
Catalog == <<"builds", "tools", "cheats", "downloaders", "preserved">>
CatalogSet == {Catalog[i] : i \in DOMAIN Catalog}

\* expected_schema of ensure_table_columns: table -> ordered (name, type)
expected_schema ==
    [t \in CatalogSet |->
        CASE t = "builds" ->
               << <<"name", "TEXT">>, <<"manifest_id", "TEXT">>, <<"year", "INTEGER">>,
                  <<"season", "TEXT">>, <<"crack_type", "TEXT">>, <<"link", "TEXT">>,
                  <<"md5", "TEXT">>, <<"description", "TEXT">> >>
          [] t = "tools" ->
               << <<"name", "TEXT">>, <<"version", "TEXT">>, <<"link", "TEXT">>,
                  <<"description", "TEXT">> >>
          [] t = "cheats" ->
               << <<"name", "TEXT">>, <<"type", "TEXT">>, <<"link", "TEXT">>,
                  <<"description", "TEXT">> >>
          [] t = "downloaders" ->
               << <<"name", "TEXT">>, <<"link", "TEXT">>, <<"description", "TEXT">> >>
          [] OTHER ->
               << <<"name", "TEXT">>, <<"link", "TEXT">>, <<"description", "TEXT">> >>]

\* a column: declared name and type, NOT NULL, INTEGER PRIMARY KEY (rowid alias)
Col(name, type, notnull, pk) == [name |-> name, type |-> type, notnull |-> notnull, pk |-> pk]
IdCol == Col("id", "INTEGER", FALSE, TRUE)

\* a table: columns in declaration order, rows in rowid order (a row maps
\* each declared column name to a value), AUTOINCREMENT and its
\* sqlite_sequence entry (0: none)
NoTable == [exists |-> FALSE, cols |-> <<>>, rows |-> <<>>, autoinc |-> FALSE, seq |-> 0]
Table(cols, rows, autoinc, seq) ==
    [exists |-> TRUE, cols |-> cols, rows |-> rows, autoinc |-> autoinc, seq |-> seq]

\* the columns of the five CREATE TABLE IF NOT EXISTS statements
CreateCols(t) ==
    <<IdCol>> \o [i \in DOMAIN expected_schema[t] |->
                    Col(expected_schema[t][i][1], expected_schema[t][i][2],
                        expected_schema[t][i][1] = "name", FALSE)]

\* the columns of the CREATE TABLE of migrate_table_schema: no NOT NULL
RebuildCols(expected_columns) ==
    <<IdCol>> \o [i \in DOMAIN expected_columns |->
                    Col(expected_columns[i][1], expected_columns[i][2], FALSE, FALSE)]

temp_name(table_name) == table_name \o "_old_migrate"
TableNames == CatalogSet \cup {temp_name(t) : t \in CatalogSet}

(***************************************************************************)
(* Column names that occur, with their lower() and normalize() forms       *)
(* computed once.                                                          *)
(***************************************************************************)
ColumnNames ==
    {"id", "name", "manifest_id", "year", "season", "crack_type", "link", "md5",
     "description", "version", "type",
     "notes", "manifest", "Manifest ID", "md5sum", "Name", "LINK", "x"}

LowerOf == [c \in ColumnNames |-> lower(c)]
NormOf == [c \in ColumnNames |-> normalize(c)]

(***************************************************************************)
(* SQLite statements on one table.                                         *)
(***************************************************************************)
Range(f) == {f[i] : i \in DOMAIN f}
MaxOf(S) == IF S = {} THEN 0 ELSE CHOOSE m \in S : \A n \in S : n <= m
ColNames(tbl) == {tbl.cols[i].name : i \in DOMAIN tbl.cols}
ColOf(tbl, name) == CHOOSE c \in Range(tbl.cols) : c.name = name

\* SQL resolves a column name case-insensitively
HasCol(tbl, name) == \E c \in ColNames(tbl) : LowerOf[c] = LowerOf[name]
Resolve(tbl, name) == CHOOSE c \in ColNames(tbl) : LowerOf[c] = LowerOf[name]

HasPk(tbl) == \E c \in Range(tbl.cols) : c.pk
PkName(tbl) == (CHOOSE c \in Range(tbl.cols) : c.pk).name
RowIds(tbl) == IF HasPk(tbl) THEN {tbl.rows[i][PkName(tbl)].i : i \in DOMAIN tbl.rows} ELSE {}

\* rows stay in rowid order
SortedInsert(rows, row, pk) ==
    LET n == Cardinality({i \in DOMAIN rows : rows[i][pk].i < row[pk].i})
    IN  SubSeq(rows, 1, n) \o <<row>> \o SubSeq(rows, n + 1, Len(rows))

Failed(tbl) == [ok |-> FALSE, tbl |-> tbl]
Done(tbl) == [ok |-> TRUE, tbl |-> tbl]

\* INSERT INTO tbl (DOMAIN given) VALUES (given): fails on an unknown column,
\* a NOT NULL or UNIQUE violation, or a non-integer primary key
InsertRow(tbl, given) ==
    IF ~tbl.exists \/ \E g \in DOMAIN given : ~HasCol(tbl, g) THEN Failed(tbl)
    ELSE
    LET valueOf(c) == given[CHOOSE g \in DOMAIN given : Resolve(tbl, g) = c]
        \* the row with the key rowid
        Keyed(stored, pk, rowid) ==
            IF \/ stored[pk].k = "text"
               \/ rowid \in RowIds(tbl)
               \/ \E c \in Range(tbl.cols) \ {ColOf(tbl, pk)} :
                     c.notnull /\ stored[c.name].k = "null"
            THEN Failed(tbl)
            ELSE Done([tbl EXCEPT !.rows = SortedInsert(tbl.rows,
                                                       [stored EXCEPT ![pk] = IntV(rowid)], pk),
                                  !.seq = IF tbl.autoinc THEN MaxOf({tbl.seq, rowid})
                                          ELSE tbl.seq])
        Insert(stored) ==
            IF HasPk(tbl)
            THEN Keyed(stored, PkName(tbl),
                       IF stored[PkName(tbl)].k = "null"
                       THEN MaxOf(RowIds(tbl) \cup {IF tbl.autoinc THEN tbl.seq ELSE 0}) + 1
                       ELSE stored[PkName(tbl)].i)
            ELSE IF \E c \in Range(tbl.cols) : c.notnull /\ stored[c.name].k = "null"
                 THEN Failed(tbl)
                 ELSE Done([tbl EXCEPT !.rows = Append(tbl.rows, stored)])
    IN  Insert([c \in ColNames(tbl) |->
                   IF \E g \in DOMAIN given : Resolve(tbl, g) = c
                   THEN ApplyAffinity(ColOf(tbl, c).type, valueOf(c))
                   ELSE NULL])

\* SELECT * FROM tbl: one tuple per row, values in column order
SelectAll(tbl) ==
    [r \in DOMAIN tbl.rows |-> [j \in DOMAIN tbl.cols |-> tbl.rows[r][tbl.cols[j].name]]]

\* DELETE FROM tbl WHERE id = record_id: the comparison converts record_id
\* by the column's affinity and never matches NULL
DeleteWhereId(tbl, record_id) ==
    LET idc == Resolve(tbl, "id")
        key == ApplyAffinity(ColOf(tbl, idc).type, record_id)
    IN  [tbl EXCEPT !.rows = SelectSeq(tbl.rows, LAMBDA r : r[idc] = NULL \/ r[idc] # key)]

(***************************************************************************)
(* The database file: every table name -> table.                           *)
(***************************************************************************)
EmptyFile == [n \in TableNames |-> NoTable]

\* get_table_columns: PRAGMA table_info, the set of declared names
get_table_columns(d, table_name) ==
    IF table_name \in DOMAIN d THEN ColNames(d[table_name]) ELSE {}

\* get_table_data: SELECT * FROM table_name
get_table_data(d, table_name) == SelectAll(d[table_name])

(***************************************************************************)
(* migrate_table_schema: the column mapping.                               *)
(***************************************************************************)
\* alias_map
alias_map ==
    [k \in {"manifestid", "manifest", "md5sum", "md5hash", "crack"} |->
        CASE k = "manifestid" -> "manifest_id"
          [] k = "manifest" -> "manifest_id"
          [] k = "md5sum" -> "md5"
          [] k = "md5hash" -> "md5"
          [] OTHER -> "crack_type"]

\* a Python dict as its (key, value) pairs in insertion order
DictHas(dict, key) == \E i \in DOMAIN dict : dict[i][1] = key
DictGet(dict, key) == dict[CHOOSE i \in DOMAIN dict : dict[i][1] = key][2]
DictPut(dict, key, value) ==
    IF DictHas(dict, key)
    THEN [i \in DOMAIN dict |-> IF dict[i][1] = key THEN <<key, value>> ELSE dict[i]]
    ELSE Append(dict, <<key, value>>)

\* existing_norm = {normalize(col): col for col in existing_list}
RECURSIVE existing_norm(_)
existing_norm(existing_list) ==
    IF existing_list = <<>> THEN <<>>
    ELSE LET front == SubSeq(existing_list, 1, Len(existing_list) - 1)
             col == existing_list[Len(existing_list)]
         IN  DictPut(existing_norm(front), NormOf[col], col)

\* existing_lower = {col.lower(): col for col in existing_list}
RECURSIVE existing_lower(_)
existing_lower(existing_list) ==
    IF existing_list = <<>> THEN <<>>
    ELSE LET front == SubSeq(existing_list, 1, Len(existing_list) - 1)
             col == existing_list[Len(existing_list)]
         IN  DictPut(existing_lower(front), LowerOf[col], col)

\* rule 5: exp_norm in norm_col or norm_col in exp_norm
Fuzzy(exp_norm, norm_col) ==
    exp_norm # "" /\ (Contains(exp_norm, norm_col) \/ Contains(norm_col, exp_norm))

\* rule 5 on the normal forms that occur, computed once
FuzzyOf == [a \in Range(NormOf), b \in Range(NormOf) |-> Fuzzy(a, b)]
FuzzyMatch(exp_norm, norm_col) == FuzzyOf[exp_norm, norm_col]

\* the first dict entry, in iteration order, that rule 5 accepts ("": none)
FuzzyPick(exp_norm, norm_dict) ==
    LET hits == {i \in DOMAIN norm_dict : FuzzyMatch(exp_norm, norm_dict[i][1])}
    IN  IF hits = {} THEN ""
        ELSE norm_dict[CHOOSE i \in hits : \A j \in hits : i <= j][2]

\* rule 4: the alias map is consulted under the expected column's normal form
AliasPick(exp_norm, norm_dict) ==
    IF exp_norm \in DOMAIN alias_map /\ DictHas(norm_dict, NormOf[alias_map[exp_norm]])
    THEN DictGet(norm_dict, NormOf[alias_map[exp_norm]])
    ELSE ""

\* the old column an expected column is filled from ("": none, SELECT NULL)
Mapped(expected_name, existing_list) ==
    LET exp_norm == NormOf[expected_name]
        Rule45(alias, norm_dict) ==
            IF alias # "" THEN alias ELSE FuzzyPick(exp_norm, norm_dict)
        Rule345(norm_dict) ==
            IF DictHas(norm_dict, exp_norm) THEN DictGet(norm_dict, exp_norm)
            ELSE Rule45(AliasPick(exp_norm, norm_dict), norm_dict)
        Rule2345(lower_dict) ==
            IF DictHas(lower_dict, LowerOf[expected_name])
            THEN DictGet(lower_dict, LowerOf[expected_name])
            ELSE Rule345(existing_norm(existing_list))
    IN  IF expected_name \in Range(existing_list) THEN expected_name
        ELSE Rule2345(existing_lower(existing_list))

\* the old columns whose position in list(existing) can change a mapping:
\* those that rule 3 or rule 5 can select for an expected column that rules
\* 1 and 2 leave unmapped
Unsettled(existing, expected_columns) ==
    {expected_columns[i][1] : i \in DOMAIN expected_columns} \
        {e \in {expected_columns[i][1] : i \in DOMAIN expected_columns} :
            e \in existing \/ \E c \in existing : LowerOf[c] = LowerOf[e]}

OrderSensitive(existing, expected_columns) ==
    {c \in existing : \E e \in Unsettled(existing, expected_columns) :
        NormOf[c] = NormOf[e] \/ FuzzyMatch(NormOf[e], NormOf[c])}

Perms(S) == {p \in [1..Cardinality(S) -> S] : \A i, j \in DOMAIN p : p[i] = p[j] => i = j}

RECURSIVE SeqOfSet(_)
SeqOfSet(S) == IF S = {} THEN <<>>
               ELSE LET x == CHOOSE y \in S : TRUE IN <<x>> \o SeqOfSet(S \ {x})

\* list(existing): a set of strings iterates in an order the hash seed of
\* the process picks; every order of the order-sensitive columns is possible
\* and the place of the other columns changes no mapping
ExistingLists(existing, expected_columns) ==
    {p \o SeqOfSet(existing \ OrderSensitive(existing, expected_columns)) :
        p \in Perms(OrderSensitive(existing, expected_columns))}

(***************************************************************************)
(* migrate_table_schema: rename, create, copy, drop in one transaction.    *)
(***************************************************************************)
\* select_exprs: for each expected column the old column it is read from
SelectExprs(expected_columns, existing_list) ==
    [e \in {expected_columns[i][1] : i \in DOMAIN expected_columns} |->
        Mapped(e, existing_list)]

\* an INSERT ... SELECT that leaves the id out
CopiedRow_no_id(old_row, copy_id, select_exprs) ==
    [c \in DOMAIN select_exprs |->
        IF select_exprs[c] # "" THEN old_row[select_exprs[c]] ELSE NULL]

\* the values INSERT ... SELECT takes from one old row; the id is copied
\* when 'id' in existing
CopiedRow(old_row, copy_id, select_exprs) ==
    [c \in DOMAIN select_exprs \cup (IF copy_id THEN {"id"} ELSE {}) |->
        IF c \notin DOMAIN select_exprs THEN old_row["id"]
        ELSE IF select_exprs[c] # "" THEN old_row[select_exprs[c]]
        ELSE NULL]

\* INSERT INTO table (...) SELECT ... FROM temp: old rows in rowid order;
\* the statement fails as soon as one row is rejected
RECURSIVE CopyRows(_, _, _, _)
CopyRows(new_tbl, old_rows, copy_id, select_exprs) ==
    LET Rest(r) == IF r.ok THEN CopyRows(r.tbl, Tail(old_rows), copy_id, select_exprs)
                   ELSE Failed(new_tbl)
    IN  IF old_rows = <<>> THEN Done(new_tbl)
        ELSE Rest(InsertRow(new_tbl, CopiedRow(Head(old_rows), copy_id, select_exprs)))

\* the statements between BEGIN and COMMIT; ok = FALSE when one raised
Rebuild(d, table_name, expected_columns, existing_list) ==
    LET temp == temp_name(table_name)
        \* DROP TABLE temp, when the copy went through
        Drop(created, copy) ==
            IF ~copy.ok THEN [ok |-> FALSE, db |-> created]
            ELSE [ok |-> TRUE,
                  db |-> [created EXCEPT ![table_name] = copy.tbl, ![temp] = NoTable]]
        \* INSERT INTO table_name (...) SELECT ... FROM temp
        Copy(created) ==
            Drop(created,
                 CopyRows(created[table_name], created[temp].rows,
                          "id" \in get_table_columns(d, table_name),
                          SelectExprs(expected_columns, existing_list)))
    IN  \* ALTER TABLE table_name RENAME TO temp
        IF table_name \notin DOMAIN d \/ ~d[table_name].exists \/ d[temp].exists
        THEN [ok |-> FALSE, db |-> d]
        ELSE \* CREATE TABLE table_name (id INTEGER PRIMARY KEY AUTOINCREMENT, ...)
             Copy([d EXCEPT ![temp] = d[table_name],
                            ![table_name] = Table(RebuildCols(expected_columns), <<>>, TRUE, 0)])

\* no ROLLBACK: the statements that ran before the failure stay
Rollback_none(before, partial) == partial

\* except: ROLLBACK restores the file as it was at BEGIN
Rollback(before, partial) == before

\* migrate_table_schema; never raises
migrate_table_schema(d, table_name, expected_columns, existing_list) ==
    LET End(r) == IF r.ok THEN [ok |-> TRUE, db |-> r.db]
                  ELSE [ok |-> FALSE, db |-> Rollback(d, r.db)]
    IN  End(Rebuild(d, table_name, expected_columns, existing_list))

(***************************************************************************)
(* ensure_table_columns and init_database.                                 *)
(***************************************************************************)
\* ALTER TABLE table_name ADD COLUMN col_name col_type
AddColumn(tbl, col_name, col_type) ==
    IF HasCol(tbl, col_name) THEN tbl
    ELSE [tbl EXCEPT !.cols = Append(tbl.cols, Col(col_name, col_type, FALSE, FALSE)),
                     !.rows = [i \in DOMAIN tbl.rows |->
                                  [c \in ColNames(tbl) \cup {col_name} |->
                                      IF c = col_name THEN NULL ELSE tbl.rows[i][c]]]]

RECURSIVE AddMissing(_, _, _)
AddMissing(tbl, schema, existing) ==
    IF schema = <<>> THEN tbl
    ELSE AddMissing(IF Head(schema)[1] \notin existing
                    THEN AddColumn(tbl, Head(schema)[1], Head(schema)[2]) ELSE tbl,
                    Tail(schema), existing)

expected_cols(table_name) ==
    {expected_schema[table_name][i][1] : i \in DOMAIN expected_schema[table_name]}

\* ensure_table_columns without the additive branch: any difference from the
\* full column set is rebuilt
EnsureBranch_no_additive(existing, table_name) ==
    IF existing = {"id"} \cup expected_cols(table_name) THEN "match"
    ELSE "rebuild"

\* which branch ensure_table_columns takes
EnsureBranch(existing, table_name) ==
    IF existing = {"id"} \cup expected_cols(table_name) THEN "match"
    ELSE IF expected_cols(table_name) \subseteq existing THEN "additive"
    ELSE "rebuild"

\* ensure_table_columns; existing_list is list(existing) of the rebuild;
\* went: "match", "additive", "rebuilt" or "failed" ("unknown": no such table
\* in the registry); it never raises
ensure_table_columns(d, table_name, existing_list) ==
    IF table_name \notin DOMAIN expected_schema THEN [went |-> "unknown", db |-> d]
    ELSE LET existing == get_table_columns(d, table_name)
             Migrated(m) == [went |-> IF m.ok THEN "rebuilt" ELSE "failed", db |-> m.db]
             Take(branch) ==
                CASE branch = "match" -> [went |-> "match", db |-> d]
                  [] branch = "additive" ->
                       [went |-> "additive",
                        db |-> [d EXCEPT ![table_name] =
                                  AddMissing(d[table_name], expected_schema[table_name],
                                             existing)]]
                  [] OTHER ->
                       Migrated(migrate_table_schema(d, table_name,
                                                     expected_schema[table_name],
                                                     existing_list))
         IN  Take(EnsureBranch(existing, table_name))

\* the orders list(existing) can take when table_name is rebuilt
ListsFor(d, table_name) ==
    IF table_name \in DOMAIN expected_schema
    THEN ExistingLists(get_table_columns(d, table_name), expected_schema[table_name])
    ELSE {<<>>}

\* CREATE TABLE IF NOT EXISTS, for the five tables
CreateTables(d) ==
    [n \in DOMAIN d |->
        IF n \in CatalogSet /\ ~d[n].exists THEN Table(CreateCols(n), <<>>, TRUE, 0)
        ELSE d[n]]

\* what the last call did to each table's schema: "none" when it did not
\* reconcile the table
NoSchemaWork == [t \in CatalogSet |-> "none"]

\* a loop that ends at the first table whose rebuild failed
RECURSIVE EnsureAll_stop(_, _, _)
EnsureAll_stop(d, i, went) ==
    IF i > Len(Catalog) \/ \E t \in CatalogSet : went[t] = "failed"
    THEN {[db |-> d, went |-> went]}
    ELSE LET Rest(r) == EnsureAll_stop(r.db, i + 1, [went EXCEPT ![Catalog[i]] = r.went])
         IN  UNION {Rest(ensure_table_columns(d, Catalog[i], list)) :
                        list \in ListsFor(d, Catalog[i])}

\* for tbl in [...]: self.ensure_table_columns(tbl), from the i-th table on:
\* the files it can leave, one per choice of list(existing) in the rebuilds
RECURSIVE EnsureAll(_, _, _)
EnsureAll(d, i, went) ==
    IF i > Len(Catalog) THEN {[db |-> d, went |-> went]}
    ELSE LET Rest(r) == EnsureAll(r.db, i + 1, [went EXCEPT ![Catalog[i]] = r.went])
         IN  UNION {Rest(ensure_table_columns(d, Catalog[i], list)) :
                        list \in ListsFor(d, Catalog[i])}

\* init_database: the files it can leave; it never raises
init_database(d) == EnsureAll(CreateTables(d), 1, NoSchemaWork)

(***************************************************************************)
(* add_record and delete_record.                                           *)
(***************************************************************************)
\* the INSERT statements with two of the columns of builds, tools and
\* cheats exchanged
insert_columns_exchanged(table_name) ==
    CASE table_name = "builds" ->
            <<"manifest_id", "name", "year", "season", "crack_type", "link", "md5",
              "description">>
      [] table_name = "tools" -> <<"version", "name", "link", "description">>
      [] table_name = "cheats" -> <<"type", "name", "link", "description">>
      [] table_name = "downloaders" -> <<"name", "link", "description">>
      [] table_name = "preserved" -> <<"name", "link", "description">>

\* the column list of the INSERT statement add_record runs for table_name
insert_columns(table_name) ==
    CASE table_name = "builds" ->
            <<"name", "manifest_id", "year", "season", "crack_type", "link", "md5",
              "description">>
      [] table_name = "tools" -> <<"name", "version", "link", "description">>
      [] table_name = "cheats" -> <<"name", "type", "link", "description">>
      [] table_name = "downloaders" -> <<"name", "link", "description">>
      [] table_name = "preserved" -> <<"name", "link", "description">>

\* while len(data) < 8: data.append("")
RECURSIVE Pad(_, _)
Pad(data, n) == IF Len(data) < n THEN Pad(Append(data, TextV("")), n) ELSE data

\* data.append("") changes the caller's list: the list as the call leaves it
Padded(table_name, data) == IF table_name = "builds" THEN Pad(data, 8) ELSE data

\* add_record: ret is "True" or "raised"
add_record(d, table_name, data, existing_list) ==
    LET Inserted(e, ins) ==
            IF ins.ok
            THEN [ret |-> "True", went |-> e.went, db |-> [e.db EXCEPT ![table_name] = ins.tbl]]
            ELSE [ret |-> "raised", went |-> e.went, db |-> e.db]
        Insert(e, cols, values) ==
            IF Len(values) # Len(cols) THEN [ret |-> "raised", went |-> e.went, db |-> e.db]
            ELSE Inserted(e, InsertRow(e.db[table_name],
                                       [c \in Range(cols) |->
                                           values[CHOOSE i \in DOMAIN cols : cols[i] = c]]))
        After(e) ==
            IF table_name \notin CatalogSet THEN [ret |-> "True", went |-> e.went, db |-> e.db]
            ELSE Insert(e, insert_columns(table_name),
                        IF table_name = "builds" THEN Pad(data, 8) ELSE data)
    IN  After(ensure_table_columns(d, table_name, existing_list))

\* delete_record: ret is "None" or "raised" (no such table, no such column)
delete_record(d, table_name, record_id) ==
    IF table_name \notin DOMAIN d \/ ~d[table_name].exists \/ ~HasCol(d[table_name], "id")
    THEN [ret |-> "raised", db |-> d]
    ELSE [ret |-> "None",
          db |-> [d EXCEPT ![table_name] = DeleteWhereId(d[table_name], record_id)]]

(***************************************************************************)
(* Database files an earlier version or another tool can have left behind. *)
(***************************************************************************)
TextCol(name) == Col(name, "TEXT", FALSE, FALSE)
\* an id column that is not the primary key
PlainId == Col("id", "TEXT", FALSE, FALSE)

\* the k-th row of a table of an old file: its primary key is k, an id that
\* is no key is '1', '1', '2', '2', ..., a year is k (as text in a TEXT column),
\* every other column holds its own name followed by k
OldRow(cols, k) ==
    [c \in {cols[i].name : i \in DOMAIN cols} |->
        LET col == CHOOSE x \in Range(cols) : x.name = c
        IN  IF col.pk THEN IntV(k)
            ELSE IF c = "id" THEN TextV(IntToText((k + 1) \div 2))
            ELSE IF c = "year"
                 THEN (IF col.type = "INTEGER" THEN IntV(k) ELSE TextV(IntToText(k)))
            ELSE TextV(c \o IntToText(k))]

OldTable(cols, n) ==
    LET keyed == \E c \in Range(cols) : c.pk
    IN  Table(cols, [k \in 1..n |-> OldRow(cols, k)], keyed, IF keyed THEN n ELSE 0)

\* column lists of old tables: (table, columns)
OldShapes ==
    { <<"tools", <<IdCol, TextCol("name"), TextCol("version"), TextCol("link"),
                   TextCol("description"), TextCol("notes")>> >>,
      <<"tools", <<TextCol("name"), TextCol("version"), TextCol("link"),
                   TextCol("description")>> >>,
      <<"tools", <<IdCol, TextCol("name"), TextCol("link"), TextCol("description"),
                   TextCol("notes")>> >>,
      <<"builds", CreateCols("builds")>>,
      <<"builds", <<IdCol, TextCol("name")>> >>,
      <<"builds", <<IdCol, TextCol("name"), TextCol("manifest")>> >>,
      <<"builds", <<IdCol, TextCol("name"), TextCol("Manifest ID"), TextCol("year"),
                    TextCol("md5sum")>> >>,
      <<"cheats", <<PlainId, TextCol("name")>> >>,
      <<"cheats", <<PlainId, TextCol("name"), TextCol("type"), TextCol("link"),
                    TextCol("description")>> >>,
      <<"downloaders", <<IdCol, TextCol("Name"), TextCol("LINK"), TextCol("description")>> >>,
      <<"preserved", <<IdCol, TextCol("name"), TextCol("link")>> >> }

\* a table left over under the name the rebuild renames to
Leftover == Table(<<TextCol("x")>>, <<>>, FALSE, 0)

\* old files: no table at all, or one old table with 0..MaxLegacyRows rows,
\* with or without a leftover <table>_old_migrate
OldFiles ==
    {EmptyFile} \cup
    {[EmptyFile EXCEPT ![shape[1]] = OldTable(shape[2], n),
                       ![temp_name(shape[1])] = IF left THEN Leftover ELSE NoTable] :
        shape \in OldShapes, n \in 0..MaxLegacyRows, left \in BOOLEAN}

\* old files with two old tables: the rebuild of the first fails (a leftover
\* builds_old_migrate; two rows of cheats with one id), a later table of the
\* order of init_database needs a rebuild
TwoTableFiles ==
    {[EmptyFile EXCEPT !["builds"] = OldTable(<<IdCol, TextCol("name")>>, n),
                       ![temp_name("builds")] = Leftover,
                       !["preserved"] =
                           OldTable(<<IdCol, TextCol("name"), TextCol("link")>>, n)] :
        n \in 1..MaxLegacyRows}
    \cup
    {[EmptyFile EXCEPT !["cheats"] = OldTable(<<PlainId, TextCol("name")>>, 2),
                       !["downloaders"] =
                           OldTable(<<IdCol, TextCol("Name"), TextCol("LINK"),
                                      TextCol("description")>>, n)] :
        n \in 1..MaxLegacyRows}

\* an old file whose cheats table has every registry column and an id that
\* is no key, its rows written by add_record: their id is NULL
NullIdFiles ==
    LET cols == <<PlainId, TextCol("name"), TextCol("type"), TextCol("link"),
                  TextCol("description")>>
    IN  {[EmptyFile EXCEPT !["cheats"] =
             Table(cols, [k \in 1..MaxLegacyRows |-> [OldRow(cols, k) EXCEPT !["id"] = NULL]],
                   FALSE, 0)]}

(***************************************************************************)
(* Inputs.                                                                 *)
(***************************************************************************)
RecordIds == {IntV(n) : n \in 1..MaxRecordId}

\* form_fields: per table the fields of the add dialog
Field(name, label, required, number) ==
    [name |-> name, label |-> label, required |-> required, number |-> number]
form_fields ==
    [builds |-> << Field("name", "Name", TRUE, FALSE),
                   Field("manifest_id", "ManifestID", FALSE, FALSE),
                   Field("year", "Year", FALSE, TRUE),
                   Field("season", "Season", FALSE, FALSE),
                   Field("crack_type", "CrackType", FALSE, FALSE),
                   Field("link", "Link", FALSE, FALSE),
                   Field("md5", "MD5", FALSE, FALSE),
                   Field("description", "Description", FALSE, FALSE) >>,
     tools |-> << Field("name", "Name", TRUE, FALSE),
                  Field("version", "Version", FALSE, FALSE),
                  Field("link", "Link", FALSE, FALSE),
                  Field("description", "Description", FALSE, FALSE) >>,
     cheats |-> << Field("name", "Name", TRUE, FALSE),
                   Field("type", "Type", FALSE, FALSE),
                   Field("link", "Link", FALSE, FALSE),
                   Field("description", "Description", FALSE, FALSE) >>,
     downloaders |-> << Field("name", "Name", TRUE, FALSE),
                        Field("link", "Link", FALSE, FALSE),
                        Field("description", "Description", FALSE, FALSE) >>,
     preserved |-> << Field("name", "Name", TRUE, FALSE),
                      Field("link", "Link", FALSE, FALSE),
                      Field("description", "Description", FALSE, FALSE) >>]

\* what the text fields of the add dialog hold when Save is clicked: every
\* field filled in (the year with digits), the name left empty, a year that
\* is no number, only the name filled in
FormsFor(table_name) ==
    LET fields == form_fields[table_name]
    IN  { [i \in DOMAIN fields |-> IF fields[i].number THEN "7" ELSE fields[i].name],
          [i \in DOMAIN fields |-> IF fields[i].required THEN ""
                                   ELSE IF fields[i].number THEN "7" ELSE fields[i].name],
          [i \in DOMAIN fields |-> IF fields[i].required THEN "n"
                                   ELSE IF fields[i].number THEN "x" ELSE ""],
          [i \in DOMAIN fields |-> IF fields[i].required THEN "n" ELSE ""] }

\* int(value) raised ValueError
NotANumber == [k |-> "ValueError", i |-> 0, s |-> ""]

\* a conversion that passes an empty number field on as ""
FieldValue_empty_text(field, value) ==
    IF field.number /\ value # ""
    THEN (IF IsDigits(value) THEN IntV(TextToInt(value)) ELSE NotANumber)
    ELSE TextV(value)

\* the value save_record appends for a field; int(value) on text without
\* sign, blanks or underscores
FieldValue(field, value) ==
    IF field.number
    THEN (IF value = "" THEN NULL
          ELSE IF IsDigits(value) THEN IntV(TextToInt(value)) ELSE NotANumber)
    ELSE TextV(value)

\* data lists for add_record: as the form builds them (text, year an
\* integer), with a number for the name and digits for the year, and with
\* None for the name
DataFor(table_name) ==
    LET cols == insert_columns(table_name)
    IN  { [i \in DOMAIN cols |-> IF cols[i] = "year" THEN IntV(7) ELSE TextV(cols[i])],
          [i \in DOMAIN cols |-> IF cols[i] = "year" THEN TextV("7")
                                 ELSE IF cols[i] = "name" THEN IntV(5) ELSE TextV("")],
          [i \in DOMAIN cols |-> IF cols[i] = "name" THEN NULL ELSE TextV(cols[i])] }

\* a table name outside the registry
OtherTable == "games"

\* data lists of another length than the table's INSERT statement: one
\* value, and for builds one value more than the eight columns
ShortData == <<TextV("name")>>
OddData(table_name) ==
    IF table_name = "builds"
    THEN {ShortData,
          [i \in 1..(Len(insert_columns("builds")) + 1) |-> TextV("name")]}
    ELSE {ShortData}

(***************************************************************************)
(* Files beside the database, and the paths the file pickers return.       *)
(***************************************************************************)
db_path == "tracker.db"
Paths == {"tracker.db", "backup.db", "BACKUP.DB", "backup"}

\* an import that takes any file
EndsWithDb_any(path) == TRUE

\* file_path.lower().endswith('.db'), computed once for the paths
EndsWithDb(path) == endswith(lower(path), ".db")
IsDbPath == [p \in Paths |-> EndsWithDb(p)]

\* save_path = e.path if e.path.lower().endswith('.db') else e.path + '.db'
SavePath(path) == IF IsDbPath[path] THEN path ELSE path \o ".db"

\* shutil.copy2(src, dst) raises SameFileError when both name one file
SameFile(src, dst) == src = dst

\* a copy that leaves the destination as it was
copy2_nothing(src_content, dst_content) == dst_content

\* shutil.copy2(src, dst): what dst holds afterwards
copy2(src_content, dst_content) == src_content

Absent == [present |-> FALSE, content |-> EmptyFile]
Present(content) == [present |-> TRUE, content |-> content]

\* the other files at the start: one file whose name does not end in .db
StartDisk == [p \in Paths \ {db_path} |-> IF p = "backup" THEN Present(EmptyFile) ELSE Absent]

\* perform_clear_all_data: DELETE FROM every table, DELETE FROM sqlite_sequence
ClearAll(d) == [n \in DOMAIN d |-> [d[n] EXCEPT !.rows = <<>>, !.seq = 0]]

(***************************************************************************)
(* State.                                                                  *)
(***************************************************************************)
VARIABLES
    file,      \* the database file at db_path
    disk,      \* the other files: path -> present, content
    tracker,   \* the DatabaseTracker instance db of main (made = FALSE: None)
    ui,        \* settings_dialog.open, form_dialog.open, the text of the last snackbar
    last,      \* the last call: operation, arguments, outcome
    exp,       \* the last export: its path, and what happened since
    budget     \* budgeted calls left

vars == <<file, disk, tracker, ui, last, exp, budget>>

\* op: the method; table, data, id, path: its arguments; ret: "None", "True"
\* or "raised"; schema: what the call's ensure_table_columns or
\* migrate_table_schema did to each table
Call(op, table, data, id, path, ret, schema) ==
    [op |-> op, table |-> table, data |-> data, id |-> id, path |-> path, ret |-> ret,
     schema |-> schema]
NoCall == Call("", "", <<>>, NULL, "", "", NoSchemaWork)
Only(table_name, went) ==
    [t \in CatalogSet |-> IF t = table_name THEN went ELSE "none"]

\* path: the path save_file_result was given ("": no export to speak of);
\* db: the database at that time; changed: a record call changed the
\* database since; imported: the path was imported since
NoExport == [path |-> "", db |-> EmptyFile, changed |-> FALSE, imported |-> FALSE]

InitOn(files, calls) ==
    /\ file \in files
    /\ disk = StartDisk
    /\ tracker = [made |-> FALSE, current_table |-> ""]
    /\ ui = [settings_open |-> FALSE, form_open |-> FALSE, snack |-> ""]
    /\ last = NoCall
    /\ exp = NoExport
    /\ budget = calls

\* files for the window: none, one this program wrote (builds with rows),
\* one with a column outside the registry, one whose rebuild fails as long
\* as two of its rows share an id
WindowFiles ==
    { EmptyFile,
      [EmptyFile EXCEPT !["builds"] = OldTable(CreateCols("builds"), MaxLegacyRows)],
      [EmptyFile EXCEPT !["tools"] =
          OldTable(<<IdCol, TextCol("name"), TextCol("version"), TextCol("link"),
                     TextCol("description"), TextCol("notes")>>, MaxLegacyRows)],
      [EmptyFile EXCEPT !["cheats"] =
          OldTable(<<PlainId, TextCol("name")>>, MaxLegacyRows + 1)] }

\* the program starts on whatever file is at db_path
Init == InitOn(OldFiles \cup TwoTableFiles \cup WindowFiles \cup NullIdFiles, MaxCalls)

\* db = DatabaseTracker() in main
Main ==
    /\ ~tracker.made
    /\ \E r \in init_database(file) :
          /\ file' = r.db
          /\ last' = Call("init_database", "", <<>>, NULL, "", "None", r.went)
    /\ tracker' = [made |-> TRUE, current_table |-> "builds"]
    /\ exp' = NoExport
    /\ UNCHANGED <<disk, ui, budget>>

InitDatabase ==
    /\ tracker.made
    /\ \E r \in init_database(file) :
          /\ file' = r.db
          /\ last' = Call("init_database", "", <<>>, NULL, "", "None", r.went)
    /\ exp' = NoExport
    /\ UNCHANGED <<disk, tracker, ui, budget>>

EnsureTableColumns(table_name) ==
    /\ tracker.made
    /\ \E list \in ListsFor(file, table_name) :
          \E r \in {ensure_table_columns(file, table_name, list)} :
              /\ file' = r.db
              /\ last' = Call("ensure_table_columns", table_name, <<>>, NULL, "", "None",
                              Only(table_name, r.went))
    /\ exp' = NoExport
    /\ UNCHANGED <<disk, tracker, ui, budget>>

MigrateTableSchema(table_name) ==
    /\ tracker.made
    /\ budget > 0
    /\ \E list \in ListsFor(file, table_name) :
          \E r \in {migrate_table_schema(file, table_name, expected_schema[table_name], list)} :
              /\ file' = r.db
              /\ last' = Call("migrate_table_schema", table_name, <<>>, NULL, "", "None",
                              Only(table_name, IF r.ok THEN "rebuilt" ELSE "failed"))
    /\ budget' = budget - 1
    /\ exp' = NoExport
    /\ UNCHANGED <<disk, tracker, ui>>

\* the export stays the one to speak of through record calls
Since(e, changed) == IF e.path = "" THEN e ELSE [e EXCEPT !.changed = e.changed \/ changed]

AddRecord(table_name, data) ==
    /\ tracker.made
    /\ budget > 0
    /\ \E list \in ListsFor(file, table_name) :
          \E r \in {add_record(file, table_name, data, list)} :
              /\ file' = r.db
              /\ last' = Call("add_record", table_name, Padded(table_name, data), NULL, "",
                              r.ret, Only(table_name, r.went))
    /\ budget' = budget - 1
    /\ exp' = Since(exp, file' # file)
    /\ UNCHANGED <<disk, tracker, ui>>

DeleteRecord(table_name, record_id) ==
    /\ tracker.made
    /\ \E r \in {delete_record(file, table_name, record_id)} :
           /\ file' = r.db
           /\ last' = Call("delete_record", table_name, <<>>, record_id, "", r.ret,
                           NoSchemaWork)
    /\ exp' = Since(exp, file' # file)
    /\ UNCHANGED <<disk, tracker, ui, budget>>

\* switch_tab(tab_name); the navigation is out of reach while the add
\* dialog is up
SwitchTab(tab_name) ==
    /\ tracker.made
    /\ ~ui.form_open
    /\ budget > 0
    /\ budget' = budget - 1
    /\ tracker' = [tracker EXCEPT !.current_table = tab_name]
    /\ last' = Call("switch_tab", tab_name, <<>>, NULL, "", "None", NoSchemaWork)
    /\ UNCHANGED <<file, disk, ui, exp>>

\* show_settings_dialog; its button is out of reach while the add dialog is
\* up, so the two dialogs are never up together
ShowSettingsDialog ==
    /\ tracker.made
    /\ ~ui.form_open
    /\ ui' = [ui EXCEPT !.settings_open = TRUE]
    /\ last' = Call("show_settings_dialog", "", <<>>, NULL, "", "None", NoSchemaWork)
    /\ UNCHANGED <<file, disk, tracker, exp, budget>>

\* perform_clear_all_data: returns the summary
PerformClearAllData ==
    /\ tracker.made
    /\ ~ui.form_open
    /\ file' = ClearAll(file)
    /\ ui' = [ui EXCEPT !.snack = "All data cleared"]
    /\ last' = Call("perform_clear_all_data", "", <<>>, NULL, "", "summary", NoSchemaWork)
    /\ exp' = Since(exp, file' # file)
    /\ UNCHANGED <<disk, tracker, budget>>

\* save_file_result(e) with e.path = path ("": the dialog was cancelled)
SaveFileResult(path) ==
    /\ tracker.made
    /\ ~ui.form_open
    /\ budget > 0
    /\ budget' = budget - 1
    /\ last' = Call("save_file_result", "", <<>>, NULL, path, "None", NoSchemaWork)
    /\ IF path = "" THEN
            /\ ui' = [ui EXCEPT !.settings_open = FALSE]
            /\ UNCHANGED <<disk, exp>>
       ELSE IF SameFile(db_path, SavePath(path)) THEN
            /\ ui' = [ui EXCEPT !.settings_open = FALSE, !.snack = "Export failed"]
            /\ exp' = NoExport
            /\ UNCHANGED disk
       ELSE /\ disk' = [disk EXCEPT ![SavePath(path)] =
                                Present(copy2(file, disk[SavePath(path)].content))]
            /\ ui' = [ui EXCEPT !.settings_open = FALSE, !.snack = "Database exported successfully"]
            /\ exp' = [path |-> path, db |-> file, changed |-> FALSE, imported |-> FALSE]
    /\ UNCHANGED <<file, tracker>>

\* pick_files_result(e) with e.files[0].path = path ("": no file picked)
PickFilesResult(path) ==
    /\ tracker.made
    /\ ~ui.form_open
    /\ IF path = "" \/ path = db_path THEN TRUE ELSE disk[path].present
    /\ IF path = "" THEN
            /\ ui' = [ui EXCEPT !.settings_open = FALSE]
            /\ last' = Call("pick_files_result", "", <<>>, NULL, path, "None", NoSchemaWork)
            /\ UNCHANGED <<file, tracker, exp>>
       ELSE IF ~IsDbPath[path] THEN
            /\ ui' = [ui EXCEPT !.settings_open = FALSE, !.snack = "Please select a .db file"]
            /\ last' = Call("pick_files_result", "", <<>>, NULL, path, "None", NoSchemaWork)
            /\ UNCHANGED <<file, tracker, exp>>
       ELSE IF SameFile(path, db_path) THEN
            /\ ui' = [ui EXCEPT !.settings_open = FALSE, !.snack = "Import failed"]
            /\ last' = Call("pick_files_result", "", <<>>, NULL, path, "None", NoSchemaWork)
            /\ UNCHANGED <<file, tracker, exp>>
       ELSE \E r \in init_database(copy2(disk[path].content, file)) :
            /\ file' = r.db
            /\ tracker' = [made |-> TRUE, current_table |-> "builds"]
            /\ ui' = [ui EXCEPT !.settings_open = FALSE, !.snack = "Database imported successfully"]
            /\ last' = Call("pick_files_result", "", <<>>, NULL, path, "None", r.went)
            /\ exp' = IF exp.path = path THEN [exp EXCEPT !.imported = TRUE] ELSE NoExport
    /\ UNCHANGED <<disk, budget>>

Next ==
    \/ Main
    \/ InitDatabase
    \/ \E t \in CatalogSet : EnsureTableColumns(t)
    \/ \E t \in CatalogSet : MigrateTableSchema(t)
    \/ \E t \in CatalogSet : \E data \in DataFor(t) : AddRecord(t, data)
    \/ \E t \in CatalogSet \cup {OtherTable} : \E data \in OddData(t) : AddRecord(t, data)
    \/ \E t \in CatalogSet : \E id \in RecordIds : DeleteRecord(t, id)
    \/ PerformClearAllData

Spec == Init /\ [][Next]_vars

\* the window: the record calls go to the current table
InitIO == InitOn(WindowFiles, MaxIoCalls)

\* the least element of a set of field positions
First(S) == CHOOSE i \in S : \A j \in S : i <= j

\* show_add_dialog: the form of the current table, its fields empty
ShowAddDialog ==
    /\ tracker.made
    /\ ~ui.form_open
    /\ ui' = [ui EXCEPT !.form_open = TRUE]
    /\ last' = Call("show_add_dialog", tracker.current_table, <<>>, NULL, "", "None",
                    NoSchemaWork)
    /\ UNCHANGED <<file, disk, tracker, exp, budget>>

\* close_dialog: Cancel, or a click beside the dialog
CloseDialog ==
    /\ ui.form_open
    /\ ui' = [ui EXCEPT !.form_open = FALSE]
    /\ last' = Call("close_dialog", tracker.current_table, <<>>, NULL, "", "None",
                    NoSchemaWork)
    /\ UNCHANGED <<file, disk, tracker, exp, budget>>

\* the texts of the form as the data of a call
Typed(form) == [i \in DOMAIN form |-> TextV(form[i])]

\* save_record(e) of the add dialog opened on the current table, the text
\* fields holding form
SaveRecord(form) ==
    /\ tracker.made
    /\ ui.form_open
    /\ LET t == tracker.current_table
           fields == form_fields[t]
           values == [i \in DOMAIN fields |-> FieldValue(fields[i], form[i])]
           bad == {i \in DOMAIN fields : values[i] = NotANumber}
           missing == {i \in DOMAIN fields :
                          fields[i].required /\ values[i] \in {NULL, TextV("")}}
       IN  IF bad # {} THEN
                /\ ui' = [ui EXCEPT !.snack = fields[First(bad)].label \o " must be a number!"]
                /\ last' = Call("save_record", t, Typed(form), NULL, "", "None", NoSchemaWork)
                /\ UNCHANGED <<file, exp, budget>>
           ELSE IF missing # {} THEN
                /\ ui' = [ui EXCEPT !.snack = fields[First(missing)].label \o " is required!"]
                /\ last' = Call("save_record", t, Typed(form), NULL, "", "None", NoSchemaWork)
                /\ UNCHANGED <<file, exp, budget>>
           ELSE /\ budget > 0
                /\ budget' = budget - 1
                /\ \E list \in ListsFor(file, t) :
                      \E r \in {add_record(file, t, values, list)} :
                          /\ file' = r.db
                          /\ last' = Call("save_record", t, Typed(form), NULL, "", "None",
                                          Only(t, r.went))
                          /\ ui' = IF r.ret = "True"
                                   THEN [ui EXCEPT !.form_open = FALSE,
                                                   !.snack = "Record added successfully!"]
                                   ELSE [ui EXCEPT !.snack = "Error saving record"]
                /\ exp' = Since(exp, file' # file)
    /\ UNCHANGED <<disk, tracker>>

\* Save is clicked with the dialog's fields filled in one of the ways
SaveClicked ==
    /\ tracker.made
    /\ \E form \in FormsFor(tracker.current_table) : SaveRecord(form)

\* delete_record(record_id) of the card of a record of the current table;
\* the cards are out of reach while the add dialog is up
DeleteClicked ==
    /\ tracker.made
    /\ ~ui.form_open
    /\ \E record \in Range(get_table_data(file, tracker.current_table)) :
          \E r \in {delete_record(file, tracker.current_table, record[1])} :
              /\ file' = r.db
              /\ last' = Call("delete_record", tracker.current_table, <<>>, record[1], "",
                              r.ret, NoSchemaWork)
              /\ ui' = [ui EXCEPT !.snack = IF r.ret = "None"
                                            THEN "Record deleted successfully!"
                                            ELSE "Error deleting record"]
    /\ exp' = Since(exp, file' # file)
    /\ UNCHANGED <<disk, tracker, budget>>

NextIO ==
    \/ Main
    \/ \E t \in CatalogSet : SwitchTab(t)
    \/ ShowSettingsDialog
    \/ ShowAddDialog
    \/ CloseDialog
    \/ SaveClicked
    \/ DeleteClicked
    \/ PerformClearAllData
    \/ \E p \in Paths \cup {""} : SaveFileResult(p)
    \/ \E p \in Paths \cup {""} : PickFilesResult(p)

SpecIO == InitIO /\ [][NextIO]_vars

(***************************************************************************)
(* Properties.  In an action formula `file` is the database before the     *)
(* call that last' describes and file' the database after it.              *)
(***************************************************************************)
TypeOf(table_name, e) ==
    expected_schema[table_name][CHOOSE i \in DOMAIN expected_schema[table_name] :
                                    expected_schema[table_name][i][1] = e][2]

\* the old columns that match an expected column by rule 1, else rule 2,
\* else rule 3
NameMatches(e, old_cols) ==
    IF e \in old_cols THEN {e}
    ELSE IF \E c \in old_cols : LowerOf[c] = LowerOf[e]
         THEN {c \in old_cols : LowerOf[c] = LowerOf[e]}
    ELSE {c \in old_cols : NormOf[c] = NormOf[e]}

\* the old columns that carry one of the alias names of an expected column
AliasColumns(e, old_cols) == {c \in old_cols : c \in DOMAIN alias_map /\ alias_map[c] = e}

\* the rows of tbl that have the given id
RowsWithId(tbl, record_id) ==
    IF ~HasCol(tbl, "id") THEN {}
    ELSE LET idc == Resolve(tbl, "id")
         IN  {i \in DOMAIN tbl.rows :
                /\ tbl.rows[i][idc] # NULL
                /\ tbl.rows[i][idc] = ApplyAffinity(ColOf(tbl, idc).type, record_id)}

\* seq without its i-th element
Without(seq, i) == SubSeq(seq, 1, i - 1) \o SubSeq(seq, i + 1, Len(seq))

\* the values the columns of table_name after the id give back for data
Stored(table_name, data) ==
    [i \in DOMAIN data |->
        ApplyAffinity(TypeOf(table_name, insert_columns(table_name)[i]), data[i])]

\* C1: in a table that init_database created, after add_record(table, data)
\* returns True get_table_data(table) holds exactly one row that was not
\* there before, the fields of that row after the id equal data in order,
\* and every row that was there before is returned unchanged.
C1_InsertThenReadSameFields ==
    [][(/\ last'.op = "add_record"
        /\ last'.ret = "True"
        /\ last'.table \in CatalogSet
        /\ file[last'.table].cols = CreateCols(last'.table))
       => LET t == last'.table
              before == get_table_data(file, t)
              after == get_table_data(file', t)
          IN  \E j \in DOMAIN after :
                  /\ Without(after, j) = before
                  /\ \A i \in DOMAIN before : before[i][1] # after[j][1]
                  /\ Tail(after[j]) = last'.data]_vars

\* C1, amended: ... the fields of that row after the id equal data in order
\* once each value is converted to the declared type of its column (a
\* number put in a TEXT column comes back as its text, a text of digits put
\* in the INTEGER column year comes back as the integer); a value already
\* of its column's type and NULL come back as they were.
C1_InsertThenReadStoredFields ==
    [][(/\ last'.op = "add_record"
        /\ last'.ret = "True"
        /\ last'.table \in CatalogSet
        /\ file[last'.table].cols = CreateCols(last'.table))
       => LET t == last'.table
              before == get_table_data(file, t)
              after == get_table_data(file', t)
          IN  /\ \E j \in DOMAIN after :
                    /\ Without(after, j) = before
                    /\ \A i \in DOMAIN before : before[i][1] # after[j][1]
                    /\ Tail(after[j]) = Stored(t, last'.data)
              /\ \A i \in DOMAIN last'.data :
                    LET type == TypeOf(t, insert_columns(t)[i])
                        v == last'.data[i]
                    IN  (v = NULL \/ (type = "TEXT" /\ v.k = "text")
                                 \/ (type = "INTEGER" /\ v.k = "int"))
                        => Stored(t, last'.data)[i] = v]_vars

\* add_record returned True on a table of init_database that held rows,
\* with a number for the name and digits for the year
C1_Witness ==
    /\ last.op = "add_record"
    /\ last.ret = "True"
    /\ last.table = "builds"
    /\ last.data[1] = IntV(5)
    /\ last.data[3] = TextV("7")
    /\ file["builds"].cols = CreateCols("builds")
    /\ Len(file["builds"].rows) >= 2
    /\ file["builds"].rows[Len(file["builds"].rows)]["name"] = TextV("5")
    /\ file["builds"].rows[Len(file["builds"].rows)]["year"] = IntV(7)

\* C2: delete_record(table, id) removes exactly one row when a row with that
\* id exists (that row is gone, every other row of every table is
\* unchanged); when no row has that id nothing changes; no error is raised.
C2_DeleteRemovesExactlyOne ==
    [][last'.op = "delete_record" =>
        LET t == last'.table
            hit == RowsWithId(file[t], last'.id)
        IN  /\ last'.ret # "raised"
            /\ \A u \in TableNames \ {t} : file'[u] = file[u]
            /\ IF hit = {} THEN file'[t] = file[t]
               ELSE /\ \E i \in hit : file'[t] = [file[t] EXCEPT !.rows = Without(file[t].rows, i)]
                    /\ RowsWithId(file'[t], last'.id) = {}]_vars

\* C3: when every expected column of a table is already among its columns,
\* ensure_table_columns changes no column, row or value of the table and
\* renames, drops or recreates no table.
C3_AdditivePreservesData ==
    [][last'.op \in {"ensure_table_columns", "init_database"} =>
        \A t \in CatalogSet :
            (/\ last'.schema[t] # "none"
             /\ file[t].exists
             /\ expected_cols(t) \subseteq ColNames(file[t]))
            => /\ file'[t] = file[t]
               /\ file'[temp_name(t)] = file[temp_name(t)]
               /\ last'.op = "ensure_table_columns" => file' = file]_vars

\* a table with a column outside the registry and with rows was reconciled
\* by a direct ensure_table_columns call
C3_Witness ==
    /\ last.op = "ensure_table_columns"
    /\ last.schema[last.table] = "additive"
    /\ "notes" \in ColNames(file[last.table])
    /\ file[last.table].rows # <<>>

\* C4: after a successful rebuild every old row has a row in the rebuilt
\* table in which each expected column with a matching old column (exact,
\* case-insensitive or normalized name) holds that column's value, and each
\* expected column with no corresponding old column is NULL.
C4_RebuildKeepsMatchedLeavesRestNull ==
    [][\A t \in CatalogSet :
        (last'.schema[t] = "rebuilt" /\ file[t].exists) =>
            LET old == file[t]
                new == file'[t]
            IN  \A i \in DOMAIN old.rows : \E j \in DOMAIN new.rows :
                    \A e \in expected_cols(t) :
                        LET m == NameMatches(e, ColNames(old))
                        IN  /\ m # {} => \E c \in m :
                                   new.rows[j][e] = ApplyAffinity(TypeOf(t, e), old.rows[i][c])
                            /\ (m = {} /\ AliasColumns(e, ColNames(old)) = {})
                                   => new.rows[j][e] = NULL]_vars

\* C5: when a step of the rebuild fails, the table is afterwards as it was
\* (name, columns, rows), no other table has changed, and the method
\* returns without raising.
C5_RebuildAtomic ==
    [][last'.op \in {"migrate_table_schema", "ensure_table_columns", "init_database"} =>
        \A t \in CatalogSet :
            last'.schema[t] = "failed" =>
                /\ last'.ret = "None"
                /\ file[t].exists
                /\ file'[t] = file[t]
                /\ file'[temp_name(t)] = file[temp_name(t)]
                /\ last'.op # "init_database" => file' = file]_vars

\* a direct migrate_table_schema call failed in the copy: the table holds
\* rows and nothing stood in the way of the rename
C5_Witness ==
    \E t \in CatalogSet :
        /\ last.op = "migrate_table_schema"
        /\ last.schema[t] = "failed"
        /\ file[t].rows # <<>>
        /\ ~file[temp_name(t)].exists

\* C6: when a table lacks expected columns, after ensure_table_columns every
\* expected column exists and every column and row value the table held,
\* columns outside the registry included, is still present.
C6_AddsMissingNonDestructively ==
    [][last'.op \in {"ensure_table_columns", "init_database"} =>
        \A t \in CatalogSet :
            (/\ last'.schema[t] # "none"
             /\ file[t].exists
             /\ ~(expected_cols(t) \subseteq ColNames(file[t])))
            => /\ expected_cols(t) \subseteq ColNames(file'[t])
               /\ ColNames(file[t]) \subseteq ColNames(file'[t])
               /\ \A i \in DOMAIN file[t].rows : \E j \in DOMAIN file'[t].rows :
                     \A c \in ColNames(file[t]) : file'[t].rows[j][c] = file[t].rows[i][c]]_vars

\* C7: after init_database each of the five tables exists and its columns
\* contain id and every column of the registry.
C7_InitGivesExpectedColumns ==
    last.op = "init_database" =>
        \A t \in CatalogSet :
            /\ file[t].exists
            /\ ({"id"} \cup expected_cols(t)) \subseteq ColNames(file[t])

\* C8: when the old table has no exact, case-insensitive or normalized match
\* for an expected column but has a column with one of its alias names, the
\* rebuilt column takes its values from that column.
C8_AliasColumnIsCopied ==
    [][\A t \in CatalogSet :
        (last'.schema[t] = "rebuilt" /\ file[t].exists) =>
            LET old == file[t]
                new == file'[t]
            IN  \A e \in expected_cols(t) : \A a \in AliasColumns(e, ColNames(old)) :
                    NameMatches(e, ColNames(old)) = {} =>
                        \A i \in DOMAIN old.rows : \E j \in DOMAIN new.rows :
                            new.rows[j][e] = ApplyAffinity(TypeOf(t, e), old.rows[i][a])]_vars

C10_ImportRejectsOtherPaths ==
    [][(/\ last'.op = "pick_files_result"
        /\ last'.path # ""
        /\ ~endswith(lower(last'.path), ".db"))
       => /\ ui'.snack = "Please select a .db file"
          /\ ~ui'.settings_open
          /\ file' = file
          /\ disk' = disk
          /\ tracker' = tracker]_vars

\* a path without .db was picked and refused while another tab than the
\* first was current and the database held rows
C10_Witness ==
    /\ last.op = "pick_files_result"
    /\ last.path = "backup"
    /\ ui.snack = "Please select a .db file"
    /\ tracker.current_table \notin {"", "builds"}
    /\ \E t \in CatalogSet : file[t].rows # <<>>

\* the number of rows of the table called table_name (none: no such table)
RowCount(d, table_name) ==
    IF table_name \in DOMAIN d /\ d[table_name].exists THEN Len(d[table_name].rows) ELSE 0

\* C11: for every table name and data passed, whenever add_record returns
\* True the named table holds exactly one more row than before the call.
C11_TrueMeansOneMoreRow ==
    [][(last'.op = "add_record" /\ last'.ret = "True")
       => RowCount(file', last'.table) = RowCount(file, last'.table) + 1]_vars

\* the calls that reconcile and do nothing else
Reconciles(call) ==
    call.op \in {"init_database", "ensure_table_columns", "migrate_table_schema"}

\* every old row is found again (told apart by its name, when the old table
\* has a column name) under its id as a column of the given type holds it
\* (BLOB: as it is); fresh: a row without id may have been given one
IdsKept(old, new, type, fresh) ==
    \A i \in DOMAIN old.rows :
        \E j \in DOMAIN new.rows :
            /\ IF fresh /\ old.rows[i]["id"] = NULL
               THEN new.rows[j]["id"].k = "int"
               ELSE new.rows[j]["id"] = ApplyAffinity(type, old.rows[i]["id"])
            /\ "name" \in ColNames(old) => new.rows[j]["name"] = old.rows[i]["name"]

\* C12: a successful rebuild keeps the records' identity: the rebuilt table
\* has exactly as many rows as the old table, and when the old table had an
\* id column every row keeps its id value; no table named
\* <table>_old_migrate remains afterwards.
C12_RebuildKeepsRowsAndIds ==
    [][\A t \in CatalogSet :
          (Reconciles(last') /\ last'.schema[t] = "rebuilt")
          => /\ Len(file'[t].rows) = Len(file[t].rows)
             /\ "id" \in ColNames(file[t]) => IdsKept(file[t], file'[t], "BLOB", FALSE)
             /\ ~file'[temp_name(t)].exists]_vars

\* C12, amended: ... every row keeps its id as an integer: an id that was
\* the table's integer key is unchanged; where the id column was not the
\* key, an id held as a text of digits becomes the number it spells and a
\* row whose id was NULL is given a new id.
C12_RebuildKeepsRowsAndIntegerIds ==
    [][\A t \in CatalogSet :
          (Reconciles(last') /\ last'.schema[t] = "rebuilt")
          => /\ Len(file'[t].rows) = Len(file[t].rows)
             /\ "id" \in ColNames(file[t])
                  => /\ IdsKept(file[t], file'[t], "INTEGER", TRUE)
                     /\ ColOf(file[t], "id").pk => IdsKept(file[t], file'[t], "BLOB", FALSE)
             /\ ~file'[temp_name(t)].exists]_vars

\* a rebuild went through on a table that held rows: one whose id was a
\* text column, and one with an integer key that no longer starts at 1
C12_Witness ==
    \/ /\ last.op \in {"init_database", "migrate_table_schema"}
       /\ last.schema["cheats"] = "rebuilt"
       /\ file["cheats"].rows # <<>>
    \/ /\ last.op = "migrate_table_schema"
       /\ \E t \in CatalogSet :
             /\ last.schema[t] = "rebuilt"
             /\ file[t].rows # <<>>
             /\ \A r \in Range(file[t].rows) : r["id"] # IntV(1)

\* the record a successful add_record put in an empty table has id 1
FirstIdIsOne(r, table_name) ==
    r.ret = "True"
    => /\ HasCol(r.db[table_name], "id")
       /\ Len(r.db[table_name].rows) = 1
       /\ r.db[table_name].rows[1][Resolve(r.db[table_name], "id")] = IntV(1)

\* C13: after perform_clear_all_data returns a summary (not None), every
\* table of the database other than sqlite_sequence has zero rows, every
\* table still exists with the columns it had before, and the next record
\* added to any catalog table receives id 1.
C13_ClearEmptiesTablesAndRestartsIds ==
    [][(last'.op = "perform_clear_all_data" /\ last'.ret = "summary")
       => /\ \A n \in DOMAIN file' :
                /\ file'[n].rows = <<>>
                /\ file'[n].exists = file[n].exists
                /\ file'[n].cols = file[n].cols
          /\ \A t \in CatalogSet : \A data \in DataFor(t) : \A list \in ListsFor(file', t) :
                FirstIdIsOne(add_record(file', t, data, list), t)]_vars

\* the call left table_name as ensure_table_columns result r leaves it
ReconciledAs(r, table_name, went, d) ==
    /\ went = r.went
    /\ d[table_name] = r.db[table_name]
    /\ d[temp_name(table_name)] = r.db[temp_name(table_name)]

\* C14: print and continue: when reconciling one table fails during
\* init_database, each table that comes later in the order builds, tools,
\* cheats, downloaders, preserved is still reconciled (it is left as
\* ensure_table_columns leaves it), and init_database returns without
\* raising.
C14_InitContinuesAfterFailure ==
    [][last'.op = "init_database"
       => /\ last'.ret = "None"
          /\ \A i, j \in DOMAIN Catalog :
                (i < j /\ last'.schema[Catalog[i]] = "failed")
                => /\ last'.schema[Catalog[j]] # "none"
                   /\ \E list \in ListsFor(CreateTables(file), Catalog[j]) :
                         ReconciledAs(ensure_table_columns(CreateTables(file), Catalog[j],
                                                           list),
                                      Catalog[j], last'.schema[Catalog[j]], file')]_vars

\* init_database failed to rebuild one table and rebuilt a later one that
\* holds rows
C14_Witness ==
    /\ last.op = "init_database"
    /\ \E i, j \in DOMAIN Catalog :
          /\ i < j
          /\ last.schema[Catalog[i]] = "failed"
          /\ last.schema[Catalog[j]] = "rebuilt"
          /\ file[Catalog[j]].rows # <<>>

\* the texts the form held when Save was clicked
Texts(call) == [i \in DOMAIN call.data |-> call.data[i].s]

\* a required field is empty, or a number field is neither empty nor a number
Refused(fields, texts) ==
    \E i \in DOMAIN fields :
        \/ fields[i].required /\ texts[i] = ""
        \/ fields[i].number /\ texts[i] # "" /\ ~IsDigits(texts[i])

\* one value per field: the text, for a number field its integer, None when
\* the number field is empty
Values(fields, texts) ==
    [i \in DOMAIN fields |->
        IF ~fields[i].number THEN TextV(texts[i])
        ELSE IF texts[i] = "" THEN NULL
        ELSE IntV(TextToInt(texts[i]))]

\* the step is one call add_record(table_name, values), r its outcome
OneAddRecord(r) ==
    /\ file' = r.db
    /\ ui'.form_open = (r.ret # "True")
    /\ ui'.snack = IF r.ret = "True" THEN "Record added successfully!"
                   ELSE "Error saving record"

\* C15: save_record adds no row and leaves the form dialog open when a
\* required field (name) is empty or when the year field is non-empty and
\* does not parse as an integer; in every other case it calls add_record
\* once with one value per form field in registry order, an empty year
\* being passed as None.
C15_SaveRecordValidatesThenAdds ==
    [][last'.op = "save_record"
       => LET t == last'.table
              fields == form_fields[t]
          IN  /\ t = tracker.current_table
              /\ [i \in DOMAIN fields |-> fields[i].name]
                    = [i \in DOMAIN expected_schema[t] |-> expected_schema[t][i][1]]
              /\ IF Refused(fields, Texts(last'))
                 THEN file' = file /\ ui'.form_open
                 ELSE \E list \in ListsFor(file, t) :
                         OneAddRecord(add_record(file, t, Values(fields, Texts(last')),
                                                 list))]_vars

\* Save was clicked on the builds form with a name and an empty year: the
\* record is there with year None and the dialog is closed
C15_Witness ==
    /\ last.op = "save_record"
    /\ last.table = "builds"
    /\ Texts(last)[3] = ""
    /\ ~ui.form_open
    /\ ui.snack = "Record added successfully!"
    /\ \E r \in Range(file["builds"].rows) : r["name"] = TextV("n") /\ r["year"] = NULL

\* the INSERT of the call cannot go through: the list has another length
\* than the column list, or the name is None and the column is NOT NULL
InsertFails(call, d) ==
    \/ Len(call.data) # Len(insert_columns(call.table))
    \/ /\ call.data[1] = NULL
       /\ HasCol(d[call.table], "name")
       /\ ColOf(d[call.table], Resolve(d[call.table], "name")).notnull

\* C16: when the insert inside add_record fails (wrong number of values for
\* the table, or a constraint violation), add_record raises the error to
\* its caller instead of returning True, and no table has gained, lost or
\* changed a row.
C16_FailedInsertRaisesAndChangesNothing ==
    [][(/\ last'.op = "add_record"
        /\ last'.table \in CatalogSet
        /\ InsertFails(last', file'))
       => /\ last'.ret = "raised"
          /\ \A n \in DOMAIN file : file'[n].rows = file[n].rows]_vars

\* the rows of tbl whose name is NULL
NullNames(tbl) ==
    IF ~tbl.exists \/ ~HasCol(tbl, "name") THEN {}
    ELSE {i \in DOMAIN tbl.rows : tbl.rows[i][Resolve(tbl, "name")] = NULL}

\* C17: the name column is never NULL: starting from a database in which no
\* row has a NULL name, after any sequence of init_database,
\* ensure_table_columns, migrate_table_schema, add_record and delete_record,
\* no row of any of the five catalog tables has a NULL name.
C17_NameNeverNull == \A t \in CatalogSet : NullNames(file[t]) = {}

=============================================================================
